---- MODULE Spec2Model ----
(***************************************************************************)
(* A model of simple-podcast-sync (src/podcast_sync.py): the filename      *)
(* sanitizer, the Apple Podcasts catalog reader, the device manager        *)
(* (scan, copy_episode, delete_file) and the PodcastSyncApp orchestrator.  *)
(*                                                                         *)
(* Text is a sequence of one-character strings, so that replace, re.sub,   *)
(* strip, slicing and Path.suffix are computed character by character.     *)
(* A device path is a sequence of path components below the device root.   *)
(***************************************************************************)
EXTENDS Integers, Sequences, FiniteSets, TLC

(***************************************************************************)
(* Bounds of the model and constants of the program                        *)
(***************************************************************************)

\* text[:200] in sanitize_filename
MaxNameLen == 200

\* seconds in a day: timedelta(seconds=t) normalises to (days, seconds)
SecondsPerDay == 24 * 60 * 60

\* get_recent_podcasts(self, limit: int = 10)
DefaultLimit == 10

\* longest free part of a title tried by the sanitizer specification
MaxTail == 3

\* rows in the catalog store and largest limit tried by the catalog specification
MaxRows == 3

\* failures the environment injects in one run of the orchestrator: a raised
\* exception, a failed transcode, a removed source file, a pulled-out device
MaxFaults == 1

\* button presses delivered after their screen was replaced, in one run
MaxStale == 1

(***************************************************************************)
(* Text helpers                                                            *)
(***************************************************************************)

Min(a, b) == IF a < b THEN a ELSE b

Last(s) == s[Len(s)]

\* n copies of the character c
Rep(c, n) == [i \in 1..n |-> c]

\* all texts over alphabet A of length at most n
TextsUpTo(A, n) == UNION {[1..k -> A] : k \in 0..n}

\* str.startswith for a one-character prefix
StartsWithChar(s, c) == Len(s) > 0 /\ s[1] = c

\* index of the last occurrence of c in s, 0 when there is none (str.rfind + 1)
RFind(s, c) ==
    LET hits == {i \in 1..Len(s) : s[i] = c}
    IN  IF hits = {} THEN 0 ELSE CHOOSE i \in hits : \A j \in hits : j <= i

\* str.lower on the characters the model uses
LowerChar(c) ==
    CASE c = "M" -> "m"
      [] c = "P" -> "p"
      [] c = "A" -> "a"
      [] OTHER -> c

Lower(s) == [i \in 1..Len(s) |-> LowerChar(s[i])]

(***************************************************************************)
(* sanitize_filename (podcast_sync.py 47-56)                               *)
(***************************************************************************)

\* the character class of re.sub(r'[<>:"/\\|?*]', "", text)
InvalidChars == {"<", ">", ":", "\"", "/", "\\", "|", "?", "*"}

\* the argument of text.strip(" .")
StripChars == {" ", "."}

\* text.replace(" ", "_")
ReplaceSpaces(text) == [i \in 1..Len(text) |-> IF text[i] = " " THEN "_" ELSE text[i]]

IsValidChar(c) == c \notin InvalidChars

\* re.sub(r'[<>:"/\\|?*]', "", text)
RemoveInvalid(text) == SelectSeq(text, IsValidChar)

RECURSIVE LStrip(_)
LStrip(text) ==
    IF text # << >> /\ Head(text) \in StripChars THEN LStrip(Tail(text)) ELSE text

RECURSIVE RStrip(_)
RStrip(text) ==
    IF text # << >> /\ Last(text) \in StripChars
    THEN RStrip(SubSeq(text, 1, Len(text) - 1))
    ELSE text

\* text.strip(" .")
Strip(text) == RStrip(LStrip(text))

\* text[:n]
Truncate(text, n) == SubSeq(text, 1, Min(n, Len(text)))

sanitize_filename(text) ==
    Truncate(Strip(RemoveInvalid(ReplaceSpaces(text))), MaxNameLen)

(***************************************************************************)
(* PodcastEpisode.filename (podcast_sync.py 72-81)                         *)
(***************************************************************************)

\* PurePath.suffix of a final path component: the text from its last dot,
\* empty when the dot is the first or the last character or is missing
PathSuffix(name) ==
    LET i == RFind(name, ".")
    IN  IF 1 < i /\ i < Len(name) THEN SubSeq(name, i, Len(name)) ELSE << >>

DefaultExtension == <<".", "m", "p", "3">>

\* extension = original_path.suffix, ".mp3" when that is empty
Extension(file_name) ==
    IF PathSuffix(file_name) = << >> THEN DefaultExtension ELSE PathSuffix(file_name)

filename(title, file_name) == sanitize_filename(title) \o Extension(file_name)

(***************************************************************************)
(* PodcastLibrary.get_recent_podcasts (podcast_sync.py 138-212)            *)
(*                                                                         *)
(* A store row: title (<< >> for NULL or ''), urlKind (what ZASSETURL      *)
(* holds: "null", "empty", "http" or "file"), file (the final component of *)
(* the decoded file:// path), dateNull and date (ZDOWNLOADDATE, seconds).  *)
(* A datetime is [day, sec]: days since 2001-01-01 and second of the day.  *)
(***************************************************************************)

\* datetime(2001, 1, 1)
CoreDataEpoch == [day |-> 0, sec |-> 0]

\* dt + timedelta(seconds=t): timedelta normalises t to days and seconds
AddSeconds(dt, t) ==
    LET total == dt.sec + (t % SecondsPerDay)
    IN  [day |-> dt.day + (t \div SecondsPerDay) + (total \div SecondsPerDay),
         sec |-> total % SecondsPerDay]

UnknownEpisode == <<"U", "n", "k", "n", "o", "w", "n">>

\* the WHERE clause of the query
RowMatches(row) == row.urlKind \notin {"null", "empty"} /\ ~row.dateNull

Eligible(rows) == {i \in DOMAIN rows : RowMatches(rows[i])}

\* LIMIT ?: at most n of the available rows
LimitCount(n, available) == Min(n, available)

IsInjective(q) == \A i, j \in DOMAIN q : i # j => q[i] # q[j]

\* ORDER BY e.ZDOWNLOADDATE DESC LIMIT n: the row numbers the cursor can
\* return (rows with equal dates come in any order)
QueryResults(rows, n) ==
    LET E == Eligible(rows)
        k == LimitCount(n, Cardinality(E))
    IN  {q \in [1..k -> E] :
            /\ IsInjective(q)
            /\ \A i \in 1..k : \A j \in 1..k :
                  i < j => rows[q[i]].date >= rows[q[j]].date
            /\ \A i \in 1..k : \A e \in E :
                  (\A j \in 1..k : q[j] # e) => rows[e].date <= rows[q[i]].date}

\* if download_date: ... else datetime.now()
HasDate(download_date) == download_date # 0

DateAdded(download_date, clock) ==
    IF HasDate(download_date) THEN AddSeconds(CoreDataEpoch, download_date) ELSE clock

\* file_url.startswith("file://") and Path(file_path).exists()
RowUsable(row, exists) == row.urlKind = "file" /\ exists[row.file]

\* PodcastEpisode(title or "Unknown Episode", ..., file_path, date_added)
MakeEpisode(row, clock) ==
    [title      |-> IF row.title = << >> THEN UnknownEpisode ELSE row.title,
     file       |-> row.file,
     date_added |-> DateAdded(row.date, clock),
     selected   |-> FALSE]

\* the loop over the fetched rows (171-202), rows q[from..]
RECURSIVE BuildEpisodes(_, _, _, _, _)
BuildEpisodes(rows, q, from, exists, clock) ==
    IF from > Len(q) THEN << >>
    ELSE LET row  == rows[q[from]]
             rest == BuildEpisodes(rows, q, from + 1, exists, clock)
         IN  IF RowUsable(row, exists) THEN <<MakeEpisode(row, clock)>> \o rest ELSE rest

\* the lists get_recent_podcasts(limit) can return; db is "missing" (no
\* database file found), "corrupt" (sqlite raises) or "ok"
get_recent_podcasts(db, rows, limit, exists, clock) ==
    IF db # "ok" THEN {<< >>}
    ELSE {BuildEpisodes(rows, q, 1, exists, clock) : q \in QueryResults(rows, limit)}

(***************************************************************************)
(* The device volume and the files of one run                              *)
(*                                                                         *)
(* A file's content is [st, of]: st is "absent", "empty" (zero length),    *)
(* "partial" (some bytes of a copy in progress) or "full"; of names the    *)
(* source file whose transcoded audio it holds (<<"?">> for audio that was *)
(* on the device before the run, << >> when there is none).                *)
(***************************************************************************)

Absent == [st |-> "absent", of |-> << >>]

Empty == [st |-> "empty", of |-> << >>]

OldAudio == [st |-> "full", of |-> <<"?">>]

Transcoded(file) == [st |-> "full", of |-> file]

PartialOf(file) == [st |-> "partial", of |-> file]

\* a directory of the device
Directory == [st |-> "dir", of |-> << >>]

\* path.exists()
Exists(c) == c.st # "absent"

\* path.is_file()
IsFile(c) == c.st \in {"empty", "partial", "full"}

\* path.stat().st_size > 0
NonZeroSize(c) == c.st \in {"partial", "full"}

\* destination_dir = self.device_path / "Podcasts"
PodcastsDir == <<"P", "o", "d", "c", "a", "s", "t", "s">>

\* destination = destination_dir / episode.filename
Destination(episode) == <<PodcastsDir, filename(episode.title, episode.file)>>

\* audio_extensions = {".mp3", ".m4a", ".aac", ".wav", ".flac"}
AudioExtensions ==
    {<<".", "m", "p", "3">>, <<".", "m", "4", "a">>, <<".", "a", "a", "c">>,
     <<".", "w", "a", "v">>, <<".", "f", "l", "a", "c">>}

\* the filter of get_device_files on a path that is a file (236-240)
IsListedAudio(path) ==
    LET name == Last(path)
    IN  /\ ~StartsWithChar(name, ".")
        /\ Lower(PathSuffix(name)) \in AudioExtensions

(***************************************************************************)
(* The inputs of the orchestrator specification                            *)
(***************************************************************************)

\* the catalog of the orchestrator runs: three downloaded episodes, newest
\* first "a", then "b" (a file without extension), then "a?"
StdStore ==
    << [title |-> <<"a">>, urlKind |-> "file", file |-> <<"1", ".", "m", "p", "3">>,
        dateNull |-> FALSE, date |-> 3 * SecondsPerDay],
       [title |-> <<"b">>, urlKind |-> "file", file |-> <<"2">>,
        dateNull |-> FALSE, date |-> 2 * SecondsPerDay],
       [title |-> <<"a", "?">>, urlKind |-> "file", file |-> <<"3", ".", "m", "p", "3">>,
        dateNull |-> FALSE, date |-> SecondsPerDay] >>

SourceFiles == {<<"1", ".", "m", "p", "3">>, <<"2">>, <<"3", ".", "m", "p", "3">>}

DestA == <<PodcastsDir, <<"a", ".", "m", "p", "3">>>>

DestB == <<PodcastsDir, <<"b", ".", "m", "p", "3">>>>

OldMusic == << <<"o", ".", "M", "P", "3">> >>

HiddenFile == << <<".", "h", ".", "m", "p", "3">> >>

TextFile == << <<"n", ".", "t", "x", "t">> >>

\* an audio file inside a dot-prefixed directory, such as .Trashes of macOS
TrashedFile == << <<".", "T">>, <<"e", ".", "m", "p", "3">> >>

\* a path with an audio extension that can be a directory
AudioDir == << <<"d", ".", "m", "p", "3">> >>

\* every path of the device the runs can touch, in the order a scan lists them
DevOrder == <<OldMusic, HiddenFile, TextFile, TrashedFile, AudioDir, DestA, DestB>>

DevPaths == {DevOrder[i] : i \in DOMAIN DevOrder}

\* a fresh device: some music, no Podcasts folder
FreshDevice ==
    [p \in DevPaths |-> IF p \in {OldMusic, HiddenFile, TextFile} THEN OldAudio ELSE Absent]

\* a device synced before: "a" is there, "b" was left with zero length
UsedDevice == [FreshDevice EXCEPT ![DestA] = OldAudio, ![DestB] = Empty]

DevicePresets == {FreshDevice, UsedDevice}

\* the catalog store is not found, cannot be read, holds nothing, or holds
\* the three episodes
CatalogPresets ==
    {[db |-> "missing", rows |-> StdStore], [db |-> "corrupt", rows |-> StdStore],
     [db |-> "ok", rows |-> << >>], [db |-> "ok", rows |-> StdStore]}

\* a reading of datetime.now() during the run (after 2001)
ClockSamples == {[day |-> 9435, sec |-> 43200]}

(***************************************************************************)
(* State                                                                   *)
(***************************************************************************)

VARIABLES
    \* the environment
    connected,      \* /Volumes/XTRAINERZ exists and is a directory
    ffmpegOk,       \* shutil.which("ffmpeg") finds the transcoder
    db,             \* the catalog store: "missing", "corrupt" or "ok"
    store,          \* the rows of the catalog store
    srcExists,      \* which source files exist on disk
    clock,          \* what datetime.now() returns
    devfs,          \* the content of each path of the device volume
    podDir,         \* the Podcasts folder exists on the device
    tmp,            \* the temporary file of the copy in progress
    orphans,        \* temporary files left behind by finished copies
    \* PodcastSyncApp
    phase,          \* "start" (before on_mount), "running", "exited"
    exitMsg,        \* the message given to self.exit
    current_screen, \* self.current_screen
    episodes,       \* self.episodes
    device_files,   \* self.device_files: [path, keep]
    pc,             \* position in apply_changes: "idle" outside it
    sel,            \* selected_episodes, as indices into episodes
    idx,            \* position of the copy loop in sel
    pidx,           \* position of the prune loop in device_files
    copied_count,
    deleted_count,
    \* observations of the run, read by the properties only
    results,        \* one record per copy_episode call of this apply_changes
    lastCall,       \* the latest copy_episode call of the run
    entry,          \* what the copy in progress found when it was called
    delLog,         \* one record per delete_file call of this apply_changes
    ffmpegRuns,     \* transcoder invocations so far
    scans,          \* device scans so far
    applies,        \* apply_changes calls so far
    stale,          \* button presses delivered after their screen was replaced
    faults,         \* failures injected by the environment so far
    \* the pure-function specifications
    fnpc,           \* "main", "input" or "done"
    title,          \* the title given to sanitize_filename
    fileName,       \* the file name of the episode
    produced,       \* [sanitized, filename]
    limit           \* the limit given to get_recent_podcasts

envVars == <<connected, ffmpegOk, db, store, srcExists, clock, devfs, podDir, tmp, orphans>>

appVars == <<phase, exitMsg, current_screen, episodes, device_files, pc, sel, idx, pidx,
             copied_count, deleted_count>>

obsVars == <<results, lastCall, entry, delLog, ffmpegRuns, scans, applies, stale, faults>>

fnVars == <<fnpc, title, fileName, produced, limit>>

vars == <<envVars, appVars, obsVars, fnVars>>

(***************************************************************************)
(* Initial states of the orchestrator                                      *)
(***************************************************************************)

NoCall == [ep |-> 0, ok |-> FALSE, msg |-> "", stage |-> "", raised |-> FALSE,
           before |-> Absent, srcThere |-> FALSE, after |-> Absent]

NoEntry == [before |-> Absent, srcThere |-> FALSE]

NoProduct == [sanitized |-> << >>, filename |-> << >>]

FnIdle ==
    /\ fnpc = "main"
    /\ title = << >>
    /\ fileName = << >>
    /\ produced = NoProduct
    /\ limit = DefaultLimit

\* PodcastSyncApp.__init__ (534-540) and the fields of a new DeviceManager
AppInit ==
    /\ phase = "start"
    /\ exitMsg = ""
    /\ current_screen = "episodes"
    /\ episodes = << >>
    /\ device_files = << >>
    /\ pc = "idle"
    /\ sel = << >>
    /\ idx = 1
    /\ pidx = 1
    /\ copied_count = 0
    /\ deleted_count = 0

ObsInit ==
    /\ results = << >>
    /\ lastCall = NoCall
    /\ entry = NoEntry
    /\ delLog = << >>
    /\ ffmpegRuns = 0
    /\ scans = 0
    /\ applies = 0
    /\ stale = 0
    /\ faults = 0

Init ==
    /\ connected \in BOOLEAN
    /\ ffmpegOk \in BOOLEAN
    /\ \E c \in CatalogPresets : db = c.db /\ store = c.rows
    /\ srcExists = [f \in SourceFiles |-> TRUE]
    /\ clock \in ClockSamples
    /\ devfs \in DevicePresets
    /\ podDir = (Exists(devfs[DestA]) \/ Exists(devfs[DestB]))
    /\ tmp = Absent
    /\ orphans = 0
    /\ AppInit
    /\ ObsInit
    /\ FnIdle

(***************************************************************************)
(* PodcastSyncApp: on_mount and the screens                                *)
(***************************************************************************)

\* self.exit(message)
Exit(msg) ==
    /\ phase' = "exited"
    /\ exitMsg' = msg

\* what the volume shows at a path: nothing when it is not mounted
Visible(p) == IF connected THEN devfs[p] ELSE Absent

\* the emptiness test missing: the selection screen is shown for any list
AnyEpisodeList(eps) == FALSE

\* if not self.episodes (556)
NoEpisodes(eps) == eps = << >>

\* on_mount (547-560)
OnMount ==
    /\ fnpc = "main"
    /\ phase = "start"
    /\ IF ~connected
       THEN /\ Exit("XTRAINERZ device not found")
            /\ UNCHANGED <<episodes, current_screen>>
       ELSE \E eps \in get_recent_podcasts(db, store, DefaultLimit, srcExists, clock) :
               /\ episodes' = eps
               /\ IF NoEpisodes(eps)
                  THEN Exit("No recent podcasts found") /\ UNCHANGED current_screen
                  ELSE /\ current_screen' = "episodes"
                       /\ phase' = "running"
                       /\ UNCHANGED exitMsg
    /\ UNCHANGED <<device_files, pc, sel, idx, pidx, copied_count, deleted_count>>
    /\ UNCHANGED <<envVars, obsVars, fnVars>>

Idle == fnpc = "main" /\ phase = "running" /\ pc = "idle"

\* PodcastListItem.on_checkbox_changed (412-417), by click or by the space key
ToggleEpisode(i) ==
    /\ Idle
    /\ current_screen = "episodes"
    /\ i \in DOMAIN episodes
    /\ episodes' = [episodes EXCEPT ![i].selected = ~@]
    /\ UNCHANGED <<phase, exitMsg, current_screen, device_files, pc, sel, idx, pidx,
                   copied_count, deleted_count>>
    /\ UNCHANGED <<envVars, obsVars, fnVars>>

\* DeviceFileListItem.on_checkbox_changed (436-441)
ToggleDeviceFile(k) ==
    /\ Idle
    /\ current_screen = "device"
    /\ k \in DOMAIN device_files
    /\ device_files' = [device_files EXCEPT ![k].keep = ~@]
    /\ UNCHANGED <<phase, exitMsg, current_screen, episodes, pc, sel, idx, pidx,
                   copied_count, deleted_count>>
    /\ UNCHANGED <<envVars, obsVars, fnVars>>

\* DeviceFile(name, path): keep = False
NewDeviceFile(path) == [path |-> path, keep |-> FALSE]

\* the files a complete scan lists (234-244), in scan order
ScanList ==
    LET Listed(p) == IsFile(devfs[p]) /\ IsListedAudio(p)
        found == SelectSeq(DevOrder, Listed)
    IN  [i \in 1..Len(found) |-> NewDeviceFile(found[i])]

\* get_device_files (225-248): with failed = TRUE the glob raised after
\* `seen` files and the files gathered so far are returned
get_device_files(failed, seen) ==
    IF ~connected THEN << >>
    ELSE IF failed THEN SubSeq(ScanList, 1, seen)
    ELSE ScanList

\* show_device_files (569-575)
show_device_files ==
    /\ current_screen' = "device"
    /\ scans' = scans + 1
    /\ \/ /\ device_files' = get_device_files(FALSE, 0)
          /\ UNCHANGED faults
       \/ /\ connected
          /\ faults < MaxFaults
          /\ faults' = faults + 1
          /\ \E seen \in 0..(Len(ScanList) - 1) :
                device_files' = get_device_files(TRUE, seen)
    /\ UNCHANGED <<phase, exitMsg, episodes, pc, sel, idx, pidx, copied_count, deleted_count>>
    /\ UNCHANGED <<results, lastCall, entry, delLog, ffmpegRuns, applies>>
    /\ UNCHANGED envVars

\* the selection ignored: every episode of the list is copied
EveryEpisode(eps, i) == [k \in 1..Len(eps) |-> k]

\* selected_episodes = [e for e in self.episodes if e.selected]
RECURSIVE SelectedFrom(_, _)
SelectedFrom(eps, i) ==
    IF i > Len(eps) THEN << >>
    ELSE (IF eps[i].selected THEN <<i>> ELSE << >>) \o SelectedFrom(eps, i + 1)

\* apply_changes (627-638): the selection is taken and the copy loop entered
BeginApply ==
    /\ sel' = SelectedFrom(episodes, 1)
    /\ idx' = 1
    /\ pidx' = 1
    /\ copied_count' = 0
    /\ deleted_count' = 0
    /\ pc' = IF sel' = << >> THEN "prune" ELSE "copy"
    /\ results' = << >>
    /\ delLog' = << >>
    /\ applies' = applies + 1
    /\ UNCHANGED <<phase, exitMsg, current_screen, episodes, device_files>>
    /\ UNCHANGED <<lastCall, entry, ffmpegRuns, scans, faults>>
    /\ UNCHANGED envVars

\* action_continue_action (596-608): the Enter key
EnterKey ==
    /\ Idle
    /\ IF current_screen = "episodes" THEN show_device_files /\ UNCHANGED stale
       ELSE IF current_screen = "device" THEN BeginApply /\ UNCHANGED stale
       ELSE UNCHANGED <<envVars, appVars, obsVars>>
    /\ UNCHANGED fnVars

Buttons == {"continue-btn", "apply-btn", "unmount-btn", "keep-mounted-btn"}

\* the screen that holds a button (467, 488, 497-498)
ButtonScreen(id) ==
    CASE id = "continue-btn" -> "episodes"
      [] id = "apply-btn" -> "device"
      [] OTHER -> "unmount"

\* a screen that was mounted at some point of the run
WasShown(scr) ==
    CASE scr = "episodes" -> TRUE
      [] scr = "device" -> scans > 0
      [] OTHER -> applies > 0

\* DeviceManager.unmount (380-396): diskutil succeeds or fails
Unmount(success) == connected' = (connected /\ ~success)

\* on_button_pressed (610-625); the handler does not look at current_screen
HandleButton(id) ==
    CASE id = "continue-btn" -> show_device_files
      [] id = "apply-btn" -> BeginApply
      [] id = "unmount-btn" ->
            /\ \E success \in BOOLEAN : Unmount(success)
            /\ Exit("Device unmounted. Bye!")
            /\ UNCHANGED <<current_screen, episodes, device_files, pc, sel, idx, pidx,
                           copied_count, deleted_count>>
            /\ UNCHANGED <<results, lastCall, entry, delLog, ffmpegRuns, scans, applies, faults>>
            /\ UNCHANGED <<ffmpegOk, db, store, srcExists, clock, devfs, podDir, tmp, orphans>>
      [] OTHER ->
            /\ Exit("Sync complete. Device remains mounted.")
            /\ UNCHANGED <<current_screen, episodes, device_files, pc, sel, idx, pidx,
                           copied_count, deleted_count>>
            /\ UNCHANGED <<results, lastCall, entry, delLog, ffmpegRuns, scans, applies, faults>>
            /\ UNCHANGED envVars

\* a press of a button: of the screen shown, or one that was queued before
\* its screen was replaced
ButtonPressed(id) ==
    /\ Idle
    /\ \/ /\ ButtonScreen(id) = current_screen
          /\ UNCHANGED stale
       \/ /\ ButtonScreen(id) # current_screen
          /\ WasShown(ButtonScreen(id))
          /\ stale < MaxStale
          /\ stale' = stale + 1
    /\ HandleButton(id)
    /\ UNCHANGED fnVars

\* Binding("q", "quit", "Quit") (529)
Quit ==
    /\ Idle
    /\ Exit("")
    /\ UNCHANGED <<current_screen, episodes, device_files, pc, sel, idx, pidx,
                   copied_count, deleted_count>>
    /\ UNCHANGED <<envVars, obsVars, fnVars>>

(***************************************************************************)
(* DeviceManager.copy_episode (250-368), one action per blocking stage     *)
(***************************************************************************)

\* the episode of the copy in progress and its destination
CurEpisode == episodes[sel[idx]]

CurDest == Destination(CurEpisode)

CanFault == faults < MaxFaults

Result(ok, msg) == [ok |-> ok, msg |-> msg, raised |-> FALSE]

\* the handler missing: the exception leaves copy_episode
Propagate(msg) == [ok |-> FALSE, msg |-> msg, raised |-> TRUE]

\* except Exception as e: ... return False (360-368)
CatchAll(msg) == [ok |-> FALSE, msg |-> msg, raised |-> FALSE]

\* the pre-flight check missing: the transcoder is taken to be there
AssumeResolvable(found) == TRUE

\* shutil.which("ffmpeg") is not None (270)
TranscoderResolvable(found) == found

\* the stale destination left in place
KeepStale(fs, d) == fs

\* destination.unlink() (290): the device without the stale destination
RemoveStale(fs, d) == [fs EXCEPT ![d] = Absent]

\* the transcoder given the destination as its output path
OutputToDestination(fs, d, c) == [fs EXCEPT ![d] = c]

\* the device after the transcoder wrote c: its output path is
\* str(tmp_path) (312), a file of the temporary directory of the host
FfmpegOutput(fs, d, c) == fs

\* the temporary file left behind
LeaveTemp(t) == t

\* tmp_path.unlink(missing_ok=True) (324-327, 342-345)
CleanUp(t) == Absent

\* the idempotence check missing: every call transcodes again
NeverSynced(c) == FALSE

\* destination.exists() and destination.stat().st_size > 0 (277)
AlreadySynced(c) == Exists(c) /\ NonZeroSize(c)

\* the verification missing: a finished move counts as success
AssumeVerified(c) == TRUE

\* destination.exists() and destination.stat().st_size > 0 (349)
Verified(c) == Exists(c) /\ NonZeroSize(c)

\* the loop left at the first failed episode
StopAfterFailure(i, ok) == IF ok THEN i + 1 ELSE Len(sel) + 1

\* the copy loop of apply_changes (640-642): the next position after a call
NextEpisode(i, ok) == i + 1

\* copy_episode returns r at `stage`; ent is what the call found on entry and
\* after is the destination as the volume shows it at the return.  A raised
\* exception leaves apply_changes and is caught by the event handler
\* (606-608, 623-625), which exits the application.
Return(r, stage, ent, after) ==
    LET rec == [ep |-> sel[idx], ok |-> r.ok, msg |-> r.msg, stage |-> stage,
                raised |-> r.raised, before |-> ent.before,
                srcThere |-> ent.srcThere, after |-> after]
    IN  /\ results' = Append(results, rec)
        /\ lastCall' = rec
        /\ entry' = NoEntry
        /\ IF r.raised
           THEN /\ Exit("An error occurred")
                /\ pc' = "idle"
                /\ UNCHANGED <<idx, copied_count>>
           ELSE /\ copied_count' = copied_count + (IF r.ok THEN 1 ELSE 0)
                /\ idx' = NextEpisode(idx, r.ok)
                /\ pc' = IF idx' > Len(sel) THEN "prune" ELSE "copy"
                /\ UNCHANGED <<phase, exitMsg>>
        /\ UNCHANGED <<current_screen, episodes, device_files, sel, pidx, deleted_count>>
        /\ UNCHANGED <<delLog, scans, applies, stale>>
        /\ UNCHANGED <<connected, ffmpegOk, db, store, srcExists, clock>>

\* copy_episode goes on to the next stage
Proceed(next, ent) ==
    /\ pc' = next
    /\ entry' = ent
    /\ UNCHANGED <<phase, exitMsg, current_screen, episodes, device_files, sel, idx, pidx,
                   copied_count, deleted_count>>
    /\ UNCHANGED <<results, lastCall, delLog, scans, applies, stale>>
    /\ UNCHANGED <<connected, ffmpegOk, db, store, srcExists, clock>>

\* 252-301: the connection check, mkdir, the pre-flight checks, the removal
\* of a zero-length destination and the creation of the temporary file
CopyStart ==
    /\ fnpc = "main"
    /\ pc = "copy"
    /\ LET d   == CurDest
           ent == [before |-> Visible(d), srcThere |-> srcExists[CurEpisode.file]]
       IN  IF ~connected
           THEN /\ Return(Result(FALSE, "DeviceNotConnected"), "check", ent, Absent)
                /\ UNCHANGED <<devfs, podDir, tmp, orphans, ffmpegRuns, faults>>
           ELSE \/ \* destination_dir.mkdir raises: the folder cannot be created
                   /\ ~podDir
                   /\ CanFault
                   /\ faults' = faults + 1
                   /\ Return(CatchAll("Unhandled"), "check", ent, devfs[d])
                   /\ UNCHANGED <<devfs, podDir, tmp, orphans, ffmpegRuns>>
                \/ /\ podDir' = TRUE
                   /\ IF ~TranscoderResolvable(ffmpegOk)
                      THEN /\ Return(Result(FALSE, "TranscoderUnavailable"), "check", ent, devfs[d])
                           /\ UNCHANGED <<devfs, tmp, orphans, ffmpegRuns, faults>>
                      ELSE IF AlreadySynced(devfs[d])
                      THEN /\ Return(Result(TRUE, "Skipped"), "check", ent, devfs[d])
                           /\ UNCHANGED <<devfs, tmp, orphans, ffmpegRuns, faults>>
                      ELSE IF ~srcExists[CurEpisode.file]
                      THEN /\ Return(Result(FALSE, "SourceFileMissing"), "check", ent, devfs[d])
                           /\ UNCHANGED <<devfs, tmp, orphans, ffmpegRuns, faults>>
                      ELSE IF Exists(devfs[d])
                      THEN \/ \* destination.unlink() succeeds
                              /\ devfs' = RemoveStale(devfs, d)
                              /\ tmp' = Empty
                              /\ Proceed("ffmpeg", ent)
                              /\ UNCHANGED <<orphans, ffmpegRuns, faults>>
                           \/ \* destination.unlink() raises
                              /\ CanFault
                              /\ faults' = faults + 1
                              /\ Return(Result(FALSE, "RemoveFailed"), "check", ent, devfs[d])
                              /\ UNCHANGED <<devfs, tmp, orphans, ffmpegRuns>>
                      ELSE /\ tmp' = Empty
                           /\ Proceed("ffmpeg", ent)
                           /\ UNCHANGED <<devfs, orphans, ffmpegRuns, faults>>
    /\ UNCHANGED fnVars

\* 303-328: subprocess.run(ffmpeg_cmd) and the check of its return code
RunFfmpeg ==
    /\ fnpc = "main"
    /\ pc = "ffmpeg"
    /\ \/ \* subprocess.run raises: the temporary file stays behind
          /\ CanFault
          /\ faults' = faults + 1
          /\ Return(CatchAll("Unhandled"), "ffmpeg", entry, Visible(CurDest))
          /\ tmp' = Absent
          /\ orphans' = orphans + 1
          /\ UNCHANGED <<devfs, podDir, ffmpegRuns>>
       \/ \* returncode != 0: the source is gone, or the transcoder fails
          \* after it wrote some or none of its output
          /\ \/ ~srcExists[CurEpisode.file] /\ UNCHANGED faults
             \/ srcExists[CurEpisode.file] /\ CanFault /\ faults' = faults + 1
          /\ ffmpegRuns' = ffmpegRuns + 1
          /\ \E c \in {Empty, PartialOf(CurEpisode.file)} :
                /\ devfs' = FfmpegOutput(devfs, CurDest, c)
                /\ tmp' = CleanUp(c)
          /\ Return(Result(FALSE, "TranscodeFailed"), "ffmpeg", entry,
                    IF connected THEN devfs'[CurDest] ELSE Absent)
          /\ UNCHANGED <<podDir, orphans>>
       \/ \* returncode == 0 and the audio is in the temporary file
          /\ srcExists[CurEpisode.file]
          /\ ffmpegRuns' = ffmpegRuns + 1
          /\ devfs' = FfmpegOutput(devfs, CurDest, Transcoded(CurEpisode.file))
          /\ tmp' = Transcoded(CurEpisode.file)
          /\ Proceed("move", entry)
          /\ UNCHANGED <<podDir, orphans, faults>>
       \/ \* returncode == 0 and nothing was written
          /\ srcExists[CurEpisode.file]
          /\ CanFault
          /\ faults' = faults + 1
          /\ ffmpegRuns' = ffmpegRuns + 1
          /\ devfs' = FfmpegOutput(devfs, CurDest, Empty)
          /\ tmp' = Empty
          /\ Proceed("move", entry)
          /\ UNCHANGED <<podDir, orphans>>
    /\ UNCHANGED fnVars

\* 330-346: shutil.move(tmp_path, destination); the temporary directory and
\* the device are different filesystems, so the move is a copy and a delete
MoveTmp ==
    /\ fnpc = "main"
    /\ pc = "move"
    /\ \/ \* the move completes
          /\ connected
          /\ devfs' = [devfs EXCEPT ![CurDest] = tmp]
          /\ tmp' = Absent
          /\ Proceed("verify", entry)
          /\ UNCHANGED <<podDir, orphans, ffmpegRuns, faults>>
       \/ \* the move raises before anything is written
          /\ \/ ~connected /\ UNCHANGED faults
             \/ connected /\ CanFault /\ faults' = faults + 1
          /\ tmp' = CleanUp(tmp)
          /\ Return(Result(FALSE, "CopyFailed"), "move", entry, Visible(CurDest))
          /\ UNCHANGED <<devfs, podDir, orphans, ffmpegRuns>>
       \/ \* the move raises in the middle of the copy
          /\ connected
          /\ NonZeroSize(tmp)
          /\ CanFault
          /\ faults' = faults + 1
          /\ devfs' = [devfs EXCEPT ![CurDest] = PartialOf(tmp.of)]
          /\ tmp' = CleanUp(tmp)
          /\ Return(Result(FALSE, "CopyFailed"), "move", entry, PartialOf(tmp.of))
          /\ UNCHANGED <<podDir, orphans, ffmpegRuns>>
    /\ UNCHANGED fnVars

\* 348-359: the verification of the destination
VerifyDest ==
    /\ fnpc = "main"
    /\ pc = "verify"
    /\ IF Verified(Visible(CurDest))
       THEN Return(Result(TRUE, "Copied"), "verify", entry, Visible(CurDest))
       ELSE Return(Result(FALSE, "VerificationFailed"), "verify", entry, Visible(CurDest))
    /\ UNCHANGED <<devfs, podDir, tmp, orphans, ffmpegRuns, faults>>
    /\ UNCHANGED fnVars

(***************************************************************************)
(* The prune loop of apply_changes (649-657) and delete_file (370-378)     *)
(***************************************************************************)

\* the keep flag read the wrong way round
DeleteKept(f) == f.keep

\* the keep flag ignored
DeleteAlways(f) == TRUE

\* if not device_file.keep
ShouldDelete(f) == ~f.keep

\* the result of delete_file ignored: every call is counted
CountEveryCall(n, ok) == n + 1

\* deleted_count += 1 when delete_file returned True
CountDeleted(n, ok) == IF ok THEN n + 1 ELSE n

PruneStep ==
    /\ fnpc = "main"
    /\ pc = "prune"
    /\ pidx <= Len(device_files)
    /\ LET f == device_files[pidx]
       IN  IF ShouldDelete(f)
           THEN \/ \* Path(device_file.path).unlink() succeeds
                   /\ Exists(Visible(f.path))
                   /\ devfs' = [devfs EXCEPT ![f.path] = Absent]
                   /\ deleted_count' = CountDeleted(deleted_count, TRUE)
                   /\ delLog' = Append(delLog, [file |-> pidx, existed |-> TRUE, ok |-> TRUE])
                   /\ UNCHANGED faults
                \/ \* unlink raises: the file is not there, or may not be removed
                   /\ \/ ~Exists(Visible(f.path)) /\ UNCHANGED faults
                      \/ Exists(Visible(f.path)) /\ CanFault /\ faults' = faults + 1
                   /\ deleted_count' = CountDeleted(deleted_count, FALSE)
                   /\ delLog' = Append(delLog, [file |-> pidx, existed |-> Exists(Visible(f.path)),
                                                ok |-> FALSE])
                   /\ UNCHANGED devfs
           ELSE UNCHANGED <<devfs, deleted_count, delLog, faults>>
    /\ pidx' = pidx + 1
    /\ UNCHANGED <<phase, exitMsg, current_screen, episodes, device_files, pc, sel, idx,
                   copied_count>>
    /\ UNCHANGED <<results, lastCall, entry, ffmpegRuns, scans, applies, stale>>
    /\ UNCHANGED <<connected, ffmpegOk, db, store, srcExists, clock, podDir, tmp, orphans>>
    /\ UNCHANGED fnVars

\* the end of apply_changes: show_unmount_screen (577-582, 657)
ShowUnmount ==
    /\ fnpc = "main"
    /\ pc = "prune"
    /\ pidx > Len(device_files)
    /\ current_screen' = "unmount"
    /\ pc' = "idle"
    /\ UNCHANGED <<phase, exitMsg, episodes, device_files, sel, idx, pidx, copied_count,
                   deleted_count>>
    /\ UNCHANGED <<envVars, obsVars, fnVars>>

(***************************************************************************)
(* The environment                                                         *)
(***************************************************************************)

\* the device is pulled out while the application runs
Unplug ==
    /\ fnpc = "main"
    /\ phase = "running"
    /\ connected
    /\ CanFault
    /\ faults' = faults + 1
    /\ connected' = FALSE
    /\ UNCHANGED <<ffmpegOk, db, store, srcExists, clock, devfs, podDir, tmp, orphans>>
    /\ UNCHANGED <<results, lastCall, entry, delLog, ffmpegRuns, scans, applies, stale>>
    /\ UNCHANGED <<appVars, fnVars>>

\* a source file listed by the catalog is removed from the disk
RemoveSource(f) ==
    /\ fnpc = "main"
    /\ phase = "running"
    /\ srcExists[f]
    /\ CanFault
    /\ faults' = faults + 1
    /\ srcExists' = [srcExists EXCEPT ![f] = FALSE]
    /\ UNCHANGED <<connected, ffmpegOk, db, store, clock, devfs, podDir, tmp, orphans>>
    /\ UNCHANGED <<results, lastCall, entry, delLog, ffmpegRuns, scans, applies, stale>>
    /\ UNCHANGED <<appVars, fnVars>>

(***************************************************************************)
(* The orchestrator specification                                          *)
(***************************************************************************)

ApplyStep == CopyStart \/ RunFfmpeg \/ MoveTmp \/ VerifyDest \/ PruneStep \/ ShowUnmount

Next ==
    \/ OnMount
    \/ \E i \in DOMAIN episodes : ToggleEpisode(i)
    \/ \E k \in DOMAIN device_files : ToggleDeviceFile(k)
    \/ EnterKey
    \/ \E id \in Buttons : ButtonPressed(id)
    \/ Quit
    \/ CopyStart
    \/ RunFfmpeg
    \/ MoveTmp
    \/ VerifyDest
    \/ PruneStep
    \/ ShowUnmount
    \/ Unplug
    \/ \E f \in SourceFiles : RemoveSource(f)

Spec == Init /\ [][Next]_vars

\* apply_changes runs to its end: every stage of it is a blocking call that
\* returns (the transcoder is taken to terminate)
FairSpec == Spec /\ WF_vars(ApplyStep)

(***************************************************************************)
(* The state of the orchestrator while a pure function is exercised alone  *)
(***************************************************************************)

EnvIdle ==
    /\ connected = FALSE
    /\ ffmpegOk = FALSE
    /\ devfs = FreshDevice
    /\ podDir = FALSE
    /\ tmp = Absent
    /\ orphans = 0

(***************************************************************************)
(* The sanitizer specification: sanitize_filename and                      *)
(* PodcastEpisode.filename applied to one title and one source file name   *)
(***************************************************************************)

TitleAlphabet == {"a", " ", ".", "/", "?"}

\* titles start with a run of "a" of one of these lengths: none, or one
\* that ends at most MaxTail characters before the cut of text[:200]
PadLens == {0} \cup {n \in 0..MaxNameLen : n >= MaxNameLen - MaxTail}

TitleInputs == {Rep("a", n) \o t : n \in PadLens, t \in TextsUpTo(TitleAlphabet, MaxTail)}

FileInputs == {<<"1", ".", "m", "p", "3">>, <<"2">>, <<"3", ".", "m", "4", "a">>}

SanInit ==
    /\ fnpc = "input"
    /\ title \in TitleInputs
    /\ fileName \in FileInputs
    /\ produced = NoProduct
    /\ limit = DefaultLimit
    /\ db = "ok"
    /\ store = << >>
    /\ srcExists = [f \in SourceFiles |-> TRUE]
    /\ clock \in ClockSamples
    /\ EnvIdle
    /\ AppInit
    /\ ObsInit

\* episode.filename is read, which calls sanitize_filename(self.title)
SanitizeCall ==
    /\ fnpc = "input"
    /\ title \in TitleInputs
    /\ produced' = [sanitized |-> sanitize_filename(title),
                    filename  |-> filename(title, fileName)]
    /\ fnpc' = "done"
    /\ UNCHANGED <<title, fileName, limit>>
    /\ UNCHANGED <<envVars, appVars, obsVars>>

SanNext == SanitizeCall

SpecSanitize == SanInit /\ [][SanNext]_vars

(***************************************************************************)
(* The catalog specification: get_recent_podcasts(limit) on a store of     *)
(* MaxRows rows                                                            *)
(***************************************************************************)

\* the asset file of row i
CatFile(i) == Rep("f", i)

CatFiles == {CatFile(i) : i \in 1..MaxRows}

CatDates == {0, SecondsPerDay, SecondsPerDay + 3600}

CatRow(i, kind, dateNull, date) ==
    [title |-> <<"t">>, urlKind |-> kind, file |-> CatFile(i),
     dateNull |-> dateNull, date |-> date]

\* what row i can hold: no usable URL, or a URL with a NULL or a stored date
CatRows(i) ==
    {CatRow(i, kind, FALSE, SecondsPerDay) : kind \in {"null", "empty"}}
    \cup {CatRow(i, kind, TRUE, 0) : kind \in {"http", "file"}}
    \cup {CatRow(i, kind, FALSE, d) : kind \in {"http", "file"}, d \in CatDates}

CatInit ==
    /\ fnpc = "input"
    /\ db = "ok"
    /\ store \in {rows \in [1..MaxRows -> UNION {CatRows(i) : i \in 1..MaxRows}] :
                     \A i \in 1..MaxRows : rows[i] \in CatRows(i)}
    /\ srcExists \in {ex \in [CatFiles -> BOOLEAN] :
                         \A i \in 1..MaxRows : store[i].urlKind # "file" => ex[CatFile(i)]}
    /\ limit \in 1..MaxRows
    /\ clock \in ClockSamples
    /\ title = << >>
    /\ fileName = << >>
    /\ produced = NoProduct
    /\ EnvIdle
    /\ AppInit
    /\ ObsInit

\* self.library.get_recent_podcasts(limit)
CatalogRead ==
    /\ fnpc = "input"
    /\ limit \in 1..MaxRows
    /\ \E eps \in get_recent_podcasts(db, store, limit, srcExists, clock) : episodes' = eps
    /\ fnpc' = "done"
    /\ UNCHANGED <<title, fileName, produced, limit>>
    /\ UNCHANGED <<phase, exitMsg, current_screen, device_files, pc, sel, idx, pidx,
                   copied_count, deleted_count>>
    /\ UNCHANGED <<envVars, obsVars>>

CatNext == CatalogRead

SpecCatalog == CatInit /\ [][CatNext]_vars

(***************************************************************************)
(* The scan specification: show_device_files on a device that holds any    *)
(* combination of the paths of DevOrder                                    *)
(***************************************************************************)

\* what a path of the device can hold when it is scanned
ScanContents(p) ==
    IF p = AudioDir THEN {Absent, Directory}
    ELSE IF p = DestB THEN {Absent, Empty, OldAudio}
    ELSE {Absent, OldAudio}

ScanInit ==
    /\ fnpc = "input"
    /\ connected \in BOOLEAN
    /\ ffmpegOk = FALSE
    /\ devfs \in {fs \in [DevPaths -> {Absent, Empty, OldAudio, Directory}] :
                      \A p \in DevPaths : fs[p] \in ScanContents(p)}
    /\ podDir = (Exists(devfs[DestA]) \/ Exists(devfs[DestB]))
    /\ tmp = Absent
    /\ orphans = 0
    /\ db = "ok"
    /\ store = << >>
    /\ srcExists = [f \in SourceFiles |-> TRUE]
    /\ clock \in ClockSamples
    /\ title = << >>
    /\ fileName = << >>
    /\ produced = NoProduct
    /\ limit = DefaultLimit
    /\ AppInit
    /\ ObsInit

\* self.show_device_files()
ScanCall ==
    /\ fnpc = "input"
    /\ produced = NoProduct
    /\ store = << >>
    /\ show_device_files
    /\ fnpc' = "done"
    /\ UNCHANGED <<title, fileName, produced, limit, stale>>

ScanNext == ScanCall

SpecScan == ScanInit /\ [][ScanNext]_vars

(***************************************************************************)
(* Properties                                                              *)
(***************************************************************************)

\* the store row an episode of the catalog specification was built from
RowOf(ep) == CHOOSE i \in DOMAIN store : store[i].file = ep.file

\* C4: for every non-null stored download timestamp t, the episode's
\* download time is 2001-01-01T00:00:00 plus t seconds (so 0 gives
\* 2001-01-01T00:00:00 and 86400 gives 2001-01-02T00:00:00)
C4_EpochConversion ==
    fnpc = "done" =>
        \A k \in DOMAIN episodes :
            LET t == store[RowOf(episodes[k])].date
            IN  episodes[k].date_added =
                    [day |-> t \div SecondsPerDay, sec |-> t % SecondsPerDay]

\* the rows whose asset file is a local file that still exists
OnDisk == {i \in Eligible(store) : store[i].urlKind = "file" /\ srcExists[store[i].file]}

\* C5: get_recent_podcasts(N) returns the N most recently downloaded episodes
\* among those whose file exists (all of them when there are fewer), newest
\* first; rows whose file is gone do not reduce that number
C5_MostRecentExisting ==
    fnpc = "done" =>
        LET got == {RowOf(episodes[k]) : k \in DOMAIN episodes}
        IN  /\ Len(episodes) = Min(limit, Cardinality(OnDisk))
            /\ got \subseteq OnDisk
            /\ \A i \in got : \A e \in OnDisk \ got : store[e].date <= store[i].date
            /\ \A a, b \in DOMAIN episodes :
                  a < b => store[RowOf(episodes[a])].date >= store[RowOf(episodes[b])].date

\* C6: the result of sanitize_filename has no leading or trailing space or dot
C6_NoEdgeSpaceOrDot ==
    (fnpc = "done" /\ produced.sanitized # << >>) =>
        /\ Head(produced.sanitized) \notin {" ", "."}
        /\ Last(produced.sanitized) \notin {" ", "."}

\* C7: the filename produced for the episode contains none of the characters
\* < > : " / \ | ? * and is at most 200 characters long
C7_FilenameCleanAndShort ==
    fnpc = "done" =>
        /\ \A i \in DOMAIN produced.filename :
              produced.filename[i] \notin {"<", ">", ":", "\"", "/", "\\", "|", "?", "*"}
        /\ Len(produced.filename) <= 200

(***************************************************************************)
(* Properties of the orchestrator                                          *)
(***************************************************************************)

\* a copy_episode call of the run has just returned or moved to its next stage
CopyStartStep == pc = "copy" /\ <<pc', idx'>> # <<pc, idx>>

\* C1: when copy_episode is called again for the episode it has just
\* reported as synced, with the destination as that call left it, it reports
\* success as "Skipped" without running the transcoder and without touching
\* the destination or any other file; and every call that reports success
\* leaves a non-empty destination file
C1_Idempotent ==
    /\ [][(/\ CopyStartStep
           /\ lastCall.ok
           /\ lastCall.ep = sel[idx]
           /\ Visible(CurDest) = lastCall.after)
          => (/\ lastCall'.ok
              /\ lastCall'.msg = "Skipped"
              /\ lastCall'.ep = sel[idx]
              /\ ffmpegRuns' = ffmpegRuns
              /\ devfs' = devfs
              /\ tmp' = tmp)]_vars
    /\ [](\A k \in DOMAIN results : results[k].ok => NonZeroSize(results[k].after))

\* the second of two apply_changes runs over one selected episode skipped it:
\* its destination held the audio transcoded from its own source file by the
\* single transcoder run of the first
C1_SecondCallSkipped ==
    /\ applies = 2
    /\ pc = "idle"
    /\ Len(sel) = 1
    /\ Len(results) = 1
    /\ results[1].msg = "Skipped"
    /\ results[1].before = Transcoded(episodes[sel[1]].file)
    /\ ffmpegRuns = 1

\* the copy loop of the latest apply_changes has ended
BatchDone == fnpc = "main" /\ applies > 0 /\ pc \in {"prune", "idle"}

\* the only failures of the environment so far are removed source files
OnlySourcesRemoved ==
    /\ connected
    /\ ffmpegOk
    /\ faults = Cardinality({g \in SourceFiles : ~srcExists[g]})

\* C2: every selected episode is processed, in order, whatever the others
\* report; an episode reports source-not-found only when its source file is
\* missing, and it does so (as a failure) when the source is missing and the
\* destination is absent or empty; every episode whose source file exists
\* reports success (nothing else failing in the environment)
C2_BatchIsolation ==
    BatchDone =>
        /\ Len(results) = Len(sel)
        /\ \A k \in DOMAIN results :
              LET r == results[k]
              IN  /\ r.ep = sel[k]
                  /\ r.msg = "SourceFileMissing" => (~r.ok /\ ~r.srcThere)
                  /\ OnlySourcesRemoved =>
                        /\ (~r.srcThere /\ ~NonZeroSize(r.before))
                              => (~r.ok /\ r.msg = "SourceFileMissing")
                        /\ srcExists[episodes[r.ep].file] => r.ok

\* three episodes were selected; the second's source file was missing and it
\* alone failed
C2_SecondOfThreeMissing ==
    /\ BatchDone
    /\ Len(results) = 3
    /\ results[1].ok
    /\ results[2].msg = "SourceFileMissing"
    /\ ~results[2].ok
    /\ results[3].ok

\* the prune loop of the latest apply_changes is running or has ended
PruneScope ==
    /\ fnpc = "main"
    /\ applies > 0
    /\ pc = "prune" \/ (pc = "idle" /\ current_screen = "unmount")

\* the scanned files the prune loop has handled so far that were not kept
Unkept == {t \in 1..(pidx - 1) : ~device_files[t].keep}

\* C3: the prune step calls delete_file once for each scanned file whose keep
\* flag is false and for no other; it never changes a kept file; every file
\* it deleted is gone; deleted_count is the number of files it deleted; and
\* when nothing fails in the environment every file not kept that was still
\* there is deleted
C3_PruneExactlyUnkept ==
    /\ [](PruneScope =>
            LET tried   == {delLog[n].file : n \in DOMAIN delLog}
                removed == {n \in DOMAIN delLog : delLog[n].ok}
            IN  /\ tried = Unkept
                /\ Len(delLog) = Cardinality(Unkept)
                /\ deleted_count = Cardinality(removed)
                /\ \A n \in removed : devfs[device_files[delLog[n].file].path] = Absent
                /\ faults = 0 =>
                      \A n \in DOMAIN delLog : delLog[n].ok = delLog[n].existed)
    /\ [][pc = "prune" =>
            \A t \in DOMAIN device_files :
                device_files[t].keep =>
                    devfs'[device_files[t].path] = devfs[device_files[t].path]]_vars

\* three files were scanned, one was kept, and the two others were deleted
C3_TwoOfThreeDeleted ==
    /\ PruneScope
    /\ pc = "idle"
    /\ Len(device_files) = 3
    /\ Cardinality({t \in DOMAIN device_files : device_files[t].keep}) = 1
    /\ deleted_count = 2
    /\ \A t \in DOMAIN device_files :
          device_files[t].keep = Exists(devfs[device_files[t].path])

\* C8: a copy_episode call whose transcoder exited with code 0 and that finds
\* no non-empty file at the destination after the move reports a verification
\* failure, and no call that got as far as the move reports success with the
\* destination absent or empty
C8_VerificationFailure ==
    \A k \in DOMAIN results :
        LET r == results[k]
        IN  /\ (r.stage = "verify" /\ ~NonZeroSize(r.after))
                  => (~r.ok /\ r.msg = "VerificationFailed")
            /\ (r.stage \in {"move", "verify"} /\ ~NonZeroSize(r.after)) => ~r.ok

\* the transcoder exited with code 0, the move completed, and the destination
\* was absent or empty at the verification
C8_VerificationFailed ==
    \E k \in DOMAIN results :
        /\ results[k].stage = "verify"
        /\ ~NonZeroSize(results[k].after)
        /\ results[k].msg = "VerificationFailed"

AtUnmountScreen == pc = "idle" /\ current_screen = "unmount" /\ phase = "running"

\* C9: once apply_changes has started, the unmount screen is always reached,
\* and no step of apply_changes ends the run, whatever fails per item
C9_ApplyReachesUnmount ==
    /\ (pc # "idle") ~> AtUnmountScreen
    /\ [][pc # "idle" => phase' = "running"]_vars

\* the unmount screen was reached after a failed copy and a failed deletion
C9_UnmountAfterFailures ==
    /\ AtUnmountScreen
    /\ \E k \in DOMAIN results : ~results[k].ok
    /\ \E n \in DOMAIN delLog : ~delLog[n].ok

\* the orchestrator's state as a number: AwaitingDevice, SelectingEpisodes,
\* ManagingDeviceFiles, Applying, AwaitingUnmount, Done
Rank ==
    CASE phase = "start" -> 0
      [] phase = "exited" -> 5
      [] pc # "idle" -> 3
      [] current_screen = "episodes" -> 1
      [] current_screen = "device" -> 2
      [] OTHER -> 4

\* C10: the state never returns to an earlier state, and the device scan and
\* the Applying step each happen at most once in a run
C10_ForwardOnly ==
    /\ [][Rank' >= Rank]_vars
    /\ [](scans <= 1 /\ applies <= 1)

\* C11: the first step of a run exits with a message when the device volume
\* is absent and when the catalog read yields no episode (the store missing
\* or unreadable included), and in these cases changes nothing on the device;
\* the episode selection screen is shown only with the device present and at
\* least one episode read
C11_StartGate ==
    /\ [][(phase = "start" /\ phase' # "start") =>
            /\ (~connected \/ db # "ok" \/ store = << >>) => phase' = "exited"
            /\ phase' = "exited" =>
                  /\ exitMsg' # ""
                  /\ ~connected \/ episodes' = << >>
                  /\ devfs' = devfs
                  /\ podDir' = podDir
                  /\ tmp' = tmp
            /\ phase' = "running" =>
                  /\ connected
                  /\ db = "ok"
                  /\ episodes' # << >>
                  /\ current_screen' = "episodes"]_vars
    /\ [](phase = "running" => episodes # << >>)

\* the run ended at its first step because the catalog store was not found,
\* with the device present
C11_ExitedWithoutCatalog ==
    /\ phase = "exited"
    /\ connected
    /\ db = "missing"
    /\ episodes = << >>
    /\ exitMsg = "No recent podcasts found"
    /\ scans = 0

\* C12: with the transcoder not resolvable every copy_episode call fails at
\* the pre-flight checks, the transcoder is never invoked, no step of the
\* copy loop changes a file of the device, and the prune loop of the same
\* apply_changes calls delete_file for every scanned file not kept and (when
\* nothing else fails) deletes it
C12_TranscoderUnavailable ==
    /\ [](~ffmpegOk =>
            /\ ffmpegRuns = 0
            /\ \A k \in DOMAIN results :
                  /\ ~results[k].ok
                  /\ results[k].stage = "check"
                  /\ results[k].after = results[k].before)
    /\ [][(~ffmpegOk /\ pc = "copy") => (devfs' = devfs /\ tmp' = tmp)]_vars
    /\ []((~ffmpegOk /\ PruneScope /\ pc = "idle") =>
            /\ {delLog[n].file : n \in DOMAIN delLog}
                  = {t \in DOMAIN device_files : ~device_files[t].keep}
            /\ (faults = 0 /\ connected) =>
                  \A t \in DOMAIN device_files :
                      ~device_files[t].keep => devfs[device_files[t].path] = Absent)

\* without a transcoder two selected episodes failed and the prune loop
\* still deleted a file
C12_FailedCopiesThenPruned ==
    /\ ~ffmpegOk
    /\ PruneScope
    /\ pc = "idle"
    /\ Len(results) >= 2
    /\ \A k \in DOMAIN results : results[k].msg = "TranscoderUnavailable"
    /\ deleted_count >= 1

\* C13: the copy onto the device is atomic: at every moment a path of the
\* device holds no partly written file, and no copy_episode call accepts
\* anything but a complete file as already synced
C13_AtomicCopy ==
    /\ \A p \in DevPaths : devfs[p].st # "partial"
    /\ \A k \in DOMAIN results :
          results[k].msg = "Skipped" => results[k].before.st = "full"

\* no component of the path starts with a dot
NotHidden(path) == \A j \in DOMAIN path : ~StartsWithChar(path[j], ".")

\* C14: a complete scan of the mounted device returns exactly the files that
\* have a recognized audio extension (case-insensitive) and are neither
\* dot-prefixed nor inside a dot-prefixed directory
C14_ScanAudioNotHidden ==
    (fnpc = "done" /\ connected /\ faults = 0) =>
        {device_files[i].path : i \in DOMAIN device_files}
            = {p \in DevPaths : /\ IsFile(devfs[p])
                                /\ Lower(PathSuffix(Last(p))) \in AudioExtensions
                                /\ NotHidden(p)}

\* the delete_file calls of the prune loop that failed
FailedDeletes == {n \in DOMAIN delLog : ~delLog[n].ok}

\* C15: a delete_file call that fails does not stop the prune loop and is
\* not counted: the calls go through the scanned files not kept in scan
\* order up to the last one, deleted_count counts the calls that succeeded
\* only, every file of a call that succeeded is gone, and a call fails only
\* for a reason of its own (its file was not there, or its unlink failed)
C15_DeleteFailureIsolated ==
    PruneScope =>
        /\ deleted_count = Len(delLog) - Cardinality(FailedDeletes)
        /\ \A n, m \in DOMAIN delLog : n < m => delLog[n].file < delLog[m].file
        /\ \A n \in DOMAIN delLog :
              /\ ~device_files[delLog[n].file].keep
              /\ delLog[n].ok =>
                    (delLog[n].existed /\ devfs[device_files[delLog[n].file].path] = Absent)
        /\ Cardinality({n \in FailedDeletes : delLog[n].existed}) <= faults
        /\ pc = "idle" =>
              \A t \in DOMAIN device_files :
                  ~device_files[t].keep => \E n \in DOMAIN delLog : delLog[n].file = t

\* the file of one delete_file call had vanished since the scan, the call
\* failed, and a later scanned file was still deleted and counted
C15_DeletedAfterFailure ==
    /\ PruneScope
    /\ pc = "idle"
    /\ deleted_count = 1
    /\ \E n, m \in DOMAIN delLog :
          /\ n < m
          /\ ~delLog[n].ok
          /\ ~delLog[n].existed
          /\ delLog[m].ok

\* the stages of copy_episode
CopyStages == {"copy", "ffmpeg", "move", "verify"}

\* C16: in apply_changes, copy_episode is called for the selected episodes
\* only, once each, one at a time in the order of the list, a failed episode
\* is not tried again, and no delete_file call is made before the last
\* copy_episode call has returned
C16_SequentialCopies ==
    (fnpc = "main" /\ applies > 0) =>
        /\ {sel[k] : k \in DOMAIN sel} = {i \in DOMAIN episodes : episodes[i].selected}
        /\ \A a, b \in DOMAIN sel : a < b => sel[a] < sel[b]
        /\ Len(results) <= Len(sel)
        /\ \A k \in DOMAIN results : results[k].ep = sel[k]
        /\ pc \in CopyStages => (delLog = << >> /\ Len(results) = idx - 1)
        /\ delLog # << >> => Len(results) = Len(sel)
        /\ pc \in {"prune", "idle"} => Len(results) = Len(sel)

\* the first and the third of three episodes were selected, the first
\* failed, the third was copied after it, and the prune loop ran after both
C16_FirstFailedThirdCopied ==
    /\ BatchDone
    /\ Len(episodes) = 3
    /\ sel = <<1, 3>>
    /\ Len(results) = 2
    /\ ~results[1].ok
    /\ results[2].msg = "Copied"
    /\ delLog # << >>

\* a copy_episode call returns in this step
CallReturns == Len(results') = Len(results) + 1

\* C17: the transcoder stage never changes a file of the device; the
\* destination is absent while the transcoder runs, and a call that ends at
\* the transcoder stage (a crash or a failure of the transcode) leaves it
\* absent
C17_TranscodeOffDevice ==
    /\ [][pc = "ffmpeg" => devfs' = devfs]_vars
    /\ [](pc = "ffmpeg" => devfs[CurDest] = Absent)
    /\ [](\A k \in DOMAIN results :
            results[k].stage = "ffmpeg" =>
                (~results[k].ok /\ results[k].after = Absent))

\* the transcoder could not be run to its end (subprocess.run raised) with
\* the device mounted, and nothing was at the destination afterwards
C17_CrashLeftNothing ==
    /\ connected
    /\ pc \in {"copy", "prune"}
    /\ results # << >>
    /\ Last(results).stage = "ffmpeg"
    /\ Last(results).msg = "Unhandled"
    /\ devfs[Destination(episodes[Last(results).ep])] = Absent

\* C18: a copy_episode call whose transcoder exits with a non-zero code
\* removes the temporary file, returns failure, leaves no file at the
\* destination, and apply_changes goes on with the next selected episode
\* (the prune loop after the last)
C18_TranscodeFailure ==
    /\ [][(pc = "ffmpeg" /\ CallReturns /\ Last(results').msg = "TranscodeFailed") =>
            /\ ~Last(results').ok
            /\ tmp' = Absent
            /\ orphans' = orphans
            /\ devfs'[CurDest] = Absent
            /\ phase' = phase
            /\ idx' = idx + 1
            /\ pc' = IF idx < Len(sel) THEN "copy" ELSE "prune"]_vars
    /\ [](BatchDone =>
            \A k \in DOMAIN results :
                results[k].msg = "TranscodeFailed" =>
                    /\ ~results[k].ok
                    /\ results[k].after = Absent
                    /\ Len(results) = Len(sel))

\* the transcode of the first of two selected episodes failed and the second
\* was copied
C18_FailedThenCopied ==
    /\ BatchDone
    /\ Len(results) = 2
    /\ results[1].msg = "TranscodeFailed"
    /\ results[2].msg = "Copied"
    /\ results[2].ok
    /\ tmp = Absent

\* C19: a copy_episode call that finds a zero-size destination (and passes
\* the checks that come first) deletes it before the transcoder runs and goes
\* on as for an absent destination: with nothing failing it ends with the
\* transcoded file copied; when the deletion fails it returns failure, the
\* transcoder is not invoked, and the next selected episode is processed
C19_StaleDestination ==
    /\ [][(pc = "copy" /\ pc' = "ffmpeg" /\ devfs[CurDest] = Empty) =>
            /\ devfs'[CurDest] = Absent
            /\ ffmpegRuns' = ffmpegRuns
            /\ tmp' = Empty]_vars
    /\ [](pc \in {"ffmpeg", "move"} => devfs[CurDest] # Empty)
    /\ [](\A k \in DOMAIN results :
            LET r == results[k]
            IN  r.before = Empty =>
                    /\ r.msg # "Skipped"
                    /\ (connected /\ ffmpegOk /\ faults = 0) =>
                          /\ r.ok
                          /\ r.msg = "Copied"
                          /\ r.after = Transcoded(episodes[r.ep].file))
    /\ [][(pc = "copy" /\ CallReturns /\ Last(results').msg = "RemoveFailed") =>
            /\ ~Last(results').ok
            /\ Last(results').before = Empty
            /\ ffmpegRuns' = ffmpegRuns
            /\ devfs' = devfs
            /\ phase' = phase
            /\ idx' = idx + 1
            /\ pc' = IF idx < Len(sel) THEN "copy" ELSE "prune"]_vars

\* an episode whose destination was a zero-size file was transcoded and
\* copied over it
C19_StaleReplaced ==
    \E k \in DOMAIN results :
        /\ results[k].before = Empty
        /\ results[k].msg = "Copied"
        /\ results[k].after = Transcoded(episodes[results[k].ep].file)
        /\ ffmpegRuns >= 1

\* C20: when apply_changes has finished, every selected episode whose
\* copy_episode call returned success has a non-empty file at its
\* destination on the device
C20_SyncedSurvivesPrune ==
    (PruneScope /\ pc = "idle" /\ connected) =>
        \A k \in DOMAIN results :
            results[k].ok => NonZeroSize(devfs[Destination(episodes[results[k].ep])])

\* C21: two distinct selected episodes never have the same destination
\* path, and the destination of every episode copy_episode reported success
\* for held that episode's own transcoded audio (or audio that was on the
\* device before the run) when the call returned
C21_OwnDestination ==
    (fnpc = "main" /\ applies > 0) =>
        /\ \A k \in DOMAIN results :
              results[k].ok =>
                  results[k].after.of \in {episodes[results[k].ep].file, <<"?">>}
        /\ \A a, b \in DOMAIN sel :
              a # b => Destination(episodes[sel[a]]) # Destination(episodes[sel[b]])

\* C22 as stated: no step changes a scanned file whose keep flag is set and
\* that exists
C22_KeptNeverTouched ==
    [][\A t \in DOMAIN device_files :
          (device_files[t].keep /\ Exists(devfs[device_files[t].path]))
              => devfs'[device_files[t].path] = devfs[device_files[t].path]]_vars

\* C22 amended: no step changes a scanned file whose keep flag is set and
\* that has a non-zero size, and the prune loop changes no kept file at all;
\* a kept file of zero size is changed only by copy_episode removing it as
\* the stale destination of the selected episode it is processing
C22_KeptNonEmptyUntouched ==
    [][\A t \in DOMAIN device_files :
          LET p == device_files[t].path
          IN  (device_files[t].keep /\ devfs'[p] # devfs[p] /\ Exists(devfs[p])) =>
                  /\ devfs[p] = Empty
                  /\ pc = "copy"
                  /\ p = CurDest
                  /\ devfs'[p] = Absent]_vars

\* apply_changes copied an episode and deleted a file, and a kept file that
\* was on the device before is still there
C22_KeptStillThere ==
    /\ PruneScope
    /\ pc = "idle"
    /\ deleted_count >= 1
    /\ \E k \in DOMAIN results : results[k].msg = "Copied"
    /\ \E t \in DOMAIN device_files :
          device_files[t].keep /\ devfs[device_files[t].path] = OldAudio

\* C23: once copy_episode has returned, the temporary file it created is
\* gone, whichever way the call ended, and none is left from an earlier call
C23_NoTempLeft ==
    /\ orphans = 0
    /\ pc \in {"idle", "copy", "prune"} => tmp = Absent

====
